---- MODULE Spec2Model ----
(***************************************************************************)
(* Model of the `caller` package: parameter definitions                    *)
(* (caller/parameters.py), their resolution and compilation into a command *)
(* line (caller/defines.py) and the application wrapper that stores        *)
(* resolved values and runs the command (caller/wrappers.py).              *)
(*                                                                         *)
(* Conventions                                                             *)
(*  - Python sequences are TLA+ sequences; Python indices stay 0-based as  *)
(*    numbers (slot i is element i+1 of the sequence).                     *)
(*  - A Python dict is a sequence of <<key, value>> pairs with distinct    *)
(*    keys, in iteration order; assignment to an existing key keeps its    *)
(*    place, assignment to a new key appends.                              *)
(*  - Raw values are small naturals; a checker is one of a family of       *)
(*    functions that coerce and/or reject them (see Checker).              *)
(*  - A raised exception is the `outcome` of the returned record.          *)
(***************************************************************************)
EXTENDS Naturals, Integers, Sequences, FiniteSets, TLC

VARIABLES pc, defs, named_dict, call, ret, app, cl

vars == <<pc, defs, named_dict, call, ret, app, cl>>

-----------------------------------------------------------------------------
(* Bounds of the model *)

\* longest positional value list a caller supplies
MaxPositionals == 3

\* most entries of a named mapping a caller supplies
MaxNamed == 2

-----------------------------------------------------------------------------
(* Values and checkers *)

\* raw values a caller supplies: a falsy one and a truthy one
RawValues == {0, 1}

\* A checker is any function value -> value that may raise.  The family:
\*   "ident"  the default checker, lambda x: x
\*   "coerce" total and idempotent, changes the representation (float, str)
\*   "strict" idempotent, raises on the falsy raw value 0 (a range check)
\*   "parse"  accepts raw values only and returns a coerced value that it
\*            does not accept itself (a lookup table from raw spellings)
Checkers == {"ident", "coerce", "strict", "parse"}

\* the coerced form of a raw value is a different value
Coerced(v) == v + 2

IsRaw(v) == v \in RawValues

CheckerRaises(c, v) ==
    \/ c = "strict" /\ v = 0
    \/ c = "parse" /\ ~IsRaw(v)

Checker(c, v) ==
    CASE c = "ident" -> v
      [] c = "coerce" -> IF IsRaw(v) THEN Coerced(v) ELSE v
      [] c = "strict" -> v
      [] c = "parse" -> Coerced(v)

-----------------------------------------------------------------------------
(* Parameter objects (caller/parameters.py) *)

\* class Positional(Parameter); it has no is_flag attribute, FALSE stands
\* for its absence.  Every parameter keeps the default stringer.
Positional(name, aliases, checker, is_required) ==
    [class |-> "Positional", name |-> name, aliases |-> aliases,
     checker |-> checker, is_required |-> is_required, is_flag |-> FALSE]

\* class Option(Parameter)
Option(name, aliases, checker, is_required, is_flag) ==
    [class |-> "Option", name |-> name, aliases |-> aliases,
     checker |-> checker, is_required |-> is_required, is_flag |-> is_flag]

\* Parameter.keys: [self.name] + list(self.aliases)
Keys(p) == <<p.name>> \o p.aliases

\* A command line token.  "text" is '%(value)s', "option" is
\* '--%(name)s=%(value)s', "empty" is '', "cmd" is a string of the command.
Token(kind, name, value) == [kind |-> kind, name |-> name, value |-> value]

EmptyString == Token("empty", "", 0)

\* Parameter.default_stringer with the class's default_formatter
DefaultStringer(p, value) ==
    IF p.class = "Option" THEN Token("option", p.name, value)
    ELSE Token("text", "", value)

\* Parameter.to_string: self.stringer(self.checker(value))
ParameterToString(p, value) ==
    IF CheckerRaises(p.checker, value)
    THEN [ok |-> FALSE, str |-> EmptyString]
    ELSE [ok |-> TRUE, str |-> DefaultStringer(p, Checker(p.checker, value))]

\* Python truth of a value
Truthy(value) == value # 0

\* Option.to_string: '' for a flag with a falsy value
OptionToString(p, value) ==
    IF Truthy(value) \/ ~p.is_flag THEN ParameterToString(p, value)
    ELSE [ok |-> TRUE, str |-> EmptyString]

\* pdef.to_string(value), dispatched on the class of pdef
DefineToString(p, value) ==
    IF p.class = "Option" THEN OptionToString(p, value)
    ELSE ParameterToString(p, value)

-----------------------------------------------------------------------------
(* PositionalContainer (caller/defines.py) *)

RECURSIVE ContainerKeys(_)
\* PositionalContainer.keys: keys += pdef.keys() for every define
ContainerKeys(pdefs) ==
    IF pdefs = <<>> THEN <<>>
    ELSE Keys(Head(pdefs)) \o ContainerKeys(Tail(pdefs))

InSeq(x, s) == \E i \in 1 .. Len(s) : s[i] = x

\* len(set(keys)) < len(keys)
HasDuplicates(s) == \E i, j \in 1 .. Len(s) : i < j /\ s[i] = s[j]

\* the duplicate check of the container left out
ContainerNeverRaises(pdefs) == FALSE

\* PositionalContainer.__init__ raises ValueError on duplicate keys
ContainerRaises(pdefs) == HasDuplicates(ContainerKeys(pdefs))

\* PositionalContainer.index: the 0-based index of the first define that
\* has `key` among its keys; -1 stands for the ValueError it raises.
Index(pdefs, key) ==
    IF \E i \in 1 .. Len(pdefs) : InSeq(key, Keys(pdefs[i]))
    THEN (CHOOSE i \in 1 .. Len(pdefs) :
            /\ InSeq(key, Keys(pdefs[i]))
            /\ \A j \in 1 .. (i - 1) : ~InSeq(key, Keys(pdefs[j]))) - 1
    ELSE -1

\* gen_defines repeating the first define instead of the last
GenDefinesRepeatFirst(pdefs, last_repeat, k) ==
    IF k < Len(pdefs) THEN [kind |-> "def", at |-> k + 1]
    ELSE IF ~last_repeat THEN [kind |-> "stop", at |-> 0]
    ELSE IF Len(pdefs) = 0 THEN [kind |-> "unbound", at |-> 0]
    ELSE [kind |-> "def", at |-> 1]

\* PositionalContainer.gen_defines: what the k-th next() (k = 0, 1, ...) on
\* a fresh generator does.  "def": yields pdef; "stop": StopIteration;
\* "unbound": the `yield pdef` of the repeat loop with no define ever bound
\* to pdef (UnboundLocalError).
GenDefines(pdefs, last_repeat, k) ==
    IF k < Len(pdefs) THEN [kind |-> "def", at |-> k + 1]
    ELSE IF ~last_repeat THEN [kind |-> "stop", at |-> 0]
    ELSE IF Len(pdefs) = 0 THEN [kind |-> "unbound", at |-> 0]
    ELSE [kind |-> "def", at |-> Len(pdefs)]

-----------------------------------------------------------------------------
(* ParameterDefinitions.__init__ (caller/defines.py) *)

\* the dict after `for pdef in positional_defines: for key in pdef.keys():
\* named_dict[key] = pdef` (a later define overwrites an earlier one)
PositionalNamedDict(pdefs) ==
    [key \in {ContainerKeys(pdefs)[i] : i \in 1 .. Len(ContainerKeys(pdefs))} |->
        pdefs[CHOOSE i \in 1 .. Len(pdefs) :
                /\ InSeq(key, Keys(pdefs[i]))
                /\ \A j \in (i + 1) .. Len(pdefs) : ~InSeq(key, Keys(pdefs[j]))]]

RECURSIVE AddOptionKeys(_, _, _, _)
\* the loop over option_defines and their keys, at key number k (1-based) of
\* option number o: raises ValueError when the key is already in the dict
AddOptionKeys(d, odefs, o, k) ==
    IF o > Len(odefs) THEN [ok |-> TRUE, d |-> d]
    ELSE IF k > Len(Keys(odefs[o])) THEN AddOptionKeys(d, odefs, o + 1, 1)
    ELSE IF Keys(odefs[o])[k] \in DOMAIN d THEN [ok |-> FALSE, d |-> d]
    ELSE AddOptionKeys(d @@ (Keys(odefs[o])[k] :> odefs[o]), odefs, o, k + 1)

\* The constructor: [ok |-> FALSE] stands for the ValueError
NewParameterDefinitions(pdefs, odefs) ==
    IF ContainerRaises(pdefs) THEN [ok |-> FALSE, d |-> <<>>]
    ELSE AddOptionKeys(PositionalNamedDict(pdefs), odefs, 1, 1)

-----------------------------------------------------------------------------
(* Python dicts as insertion-ordered sequences of <<key, value>> *)

DictKeys(d) == {d[i][1] : i \in 1 .. Len(d)}

DictHas(d, key) == \E i \in 1 .. Len(d) : d[i][1] = key

\* d[key] = value
DictSet(d, key, value) ==
    IF DictHas(d, key)
    THEN [i \in 1 .. Len(d) |-> IF d[i][1] = key THEN <<key, value>> ELSE d[i]]
    ELSE Append(d, <<key, value>>)

RECURSIVE DictUpdate(_, _)
\* d.update(e)
DictUpdate(d, e) ==
    IF e = <<>> THEN d
    ELSE DictUpdate(DictSet(d, Head(e)[1], Head(e)[2]), Tail(e))

-----------------------------------------------------------------------------
(* ParameterDefinitions.checked_values (caller/defines.py) *)

\* ShellResult(result_code, stdout, stdin): run() hands it the exit code,
\* the captured standard output and the captured standard error, in that
\* order, so the attribute stdin holds the standard error stream
ShellResult(result_code, stdout, stdin) ==
    [result_code |-> result_code, stdout |-> stdout, stdin |-> stdin,
     fields |-> <<>>]

NoResult == ShellResult(0, "", "")

\* every failure category raised as an exception class of its own
ErrorKindPerCategory(outcome) ==
    IF outcome \in {"ok", "none"} THEN "none" ELSE outcome

\* The class of the exception raised: CallerError at every `raise
\* CallerError(...)`, ValueError for duplicate keys, the checker's own
\* exception when a checker rejects a value, and the Python exception
\* itself where the code raises none of its own.
ErrorKind(outcome) ==
    IF outcome \in {"ok", "none"} THEN "none"
    ELSE IF outcome \in {"UnknownParameter", "MisplacedPositional",
                         "TooManyPositionals", "MissingPositional",
                         "MissingOption"}
    THEN "CallerError"
    ELSE IF outcome = "ValidationError" THEN "CheckerError"
    ELSE outcome

\* What a call gives back: the exception raised (outcome, "ok" for none;
\* kind is its class) and the values returned.  args_intact tells whether
\* the caller's positionals and named objects are, when the call ends, as
\* they were passed in.  executed and result belong to run().
Result(outcome, poses, options, cmdline) ==
    [outcome |-> outcome, kind |-> ErrorKind(outcome), poses |-> poses,
     options |-> options, cmdline |-> cmdline, args_intact |-> TRUE,
     executed |-> FALSE, result |-> NoResult]

Raise(outcome) == Result(outcome, <<>>, <<>>, <<>>)

\* the check for a strange key left out: self._named_dict[key] raises
StrangeKeyUnchecked == "KeyError"

\* raise CallerError('Strange key "%s" in named parameters' % key)
StrangeKey == "UnknownParameter"

\* the value stored under the key the caller used
OptionsKeyAsSupplied(ndef, key) == key

\* options[ndef.name]: the key an option's value is stored under
OptionsKey(ndef, key) == ndef.name

RECURSIVE PartitionNamed(_, _, _, _, _)
\* `for key, value in named.items()`, from item n on: pulls out the named
\* positionals as <<pos_ind, value>> and checks the options into `options`
PartitionNamed(pdefs, nd, named, options, named_poses) ==
    IF named = <<>>
    THEN [outcome |-> "ok", options |-> options, named_poses |-> named_poses]
    ELSE LET key == Head(named)[1]
             value == Head(named)[2]
             pos_ind == Index(pdefs, key)
         IN  IF pos_ind # -1
             THEN PartitionNamed(pdefs, nd, Tail(named), options,
                                 Append(named_poses, <<pos_ind, value>>))
             ELSE IF key \notin DOMAIN nd
             THEN [outcome |-> StrangeKey, options |-> options,
                   named_poses |-> named_poses]
             ELSE IF CheckerRaises(nd[key].checker, value)
             THEN [outcome |-> "ValidationError", options |-> options,
                   named_poses |-> named_poses]
             ELSE PartitionNamed(pdefs, nd, Tail(named),
                      DictSet(options, OptionsKey(nd[key], key),
                              Checker(nd[key].checker, value)),
                      named_poses)

\* x goes after every element whose index is not greater (a stable sort)
SortedInsert(s, x) ==
    LET n == Cardinality({i \in 1 .. Len(s) : s[i][1] <= x[1]})
    IN  SubSeq(s, 1, n) \o <<x>> \o SubSeq(s, n + 1, Len(s))

\* the sort left out: named positionals stay in mapping order
SortNamedPosesUnsorted(s) == s

\* the sort left out and the named positionals taken last first
SortNamedPosesReversed(s) == [i \in 1 .. Len(s) |-> s[Len(s) + 1 - i]]

RECURSIVE SortNamedPoses(_)
\* named_poses.sort(key = lambda x: x[0])
SortNamedPoses(s) ==
    IF s = <<>> THEN <<>>
    ELSE SortedInsert(SortNamedPoses(SubSeq(s, 1, Len(s) - 1)), s[Len(s)])

RECURSIVE PutNamedPosesKeepsSupplied(_, _)
\* a named positional never overwrites a supplied positional value
PutNamedPosesKeepsSupplied(positionals, named_poses) ==
    IF named_poses = <<>> THEN [outcome |-> "ok", positionals |-> positionals]
    ELSE LET i == Head(named_poses)[1]
             val == Head(named_poses)[2]
         IN  IF i < Len(positionals)
             THEN PutNamedPosesKeepsSupplied(positionals, Tail(named_poses))
             ELSE IF i = Len(positionals)
             THEN PutNamedPosesKeepsSupplied(Append(positionals, val),
                                             Tail(named_poses))
             ELSE [outcome |-> "MisplacedPositional",
                   positionals |-> positionals]

RECURSIVE PutNamedPoses(_, _)
\* `for i, val in named_poses`: overwrite, append, or raise
PutNamedPoses(positionals, named_poses) ==
    IF named_poses = <<>> THEN [outcome |-> "ok", positionals |-> positionals]
    ELSE LET i == Head(named_poses)[1]
             val == Head(named_poses)[2]
         IN  IF i < Len(positionals)
             THEN PutNamedPoses([positionals EXCEPT ![i + 1] = val],
                                Tail(named_poses))
             ELSE IF i = Len(positionals)
             THEN PutNamedPoses(Append(positionals, val), Tail(named_poses))
             ELSE [outcome |-> "MisplacedPositional",
                   positionals |-> positionals]

RECURSIVE CheckPositionals(_, _, _, _)
\* `for value in positionals`: pairs the values with gen_defines() and
\* checks each; `poses` holds the values checked so far
CheckPositionals(pdefs, last_repeat, positionals, poses) ==
    IF Len(poses) = Len(positionals)
    THEN [outcome |-> "ok", poses |-> poses]
    ELSE LET g == GenDefines(pdefs, last_repeat, Len(poses))
             value == positionals[Len(poses) + 1]
         IN  IF g.kind = "stop"
             THEN [outcome |-> "TooManyPositionals", poses |-> poses]
             ELSE IF g.kind = "unbound"
             THEN [outcome |-> "UnboundLocalError", poses |-> poses]
             ELSE IF CheckerRaises(pdefs[g.at].checker, value)
             THEN [outcome |-> "ValidationError", poses |-> poses]
             ELSE CheckPositionals(pdefs, last_repeat, positionals,
                      Append(poses, Checker(pdefs[g.at].checker, value)))

\* the named positionals put into the caller's own sequence
CallerPositionalsShared(positionals, put) == put.positionals

\* `positionals = list(positionals)`: the named positionals are put into a
\* copy, so the caller's sequence stays as it was passed
CallerPositionals(positionals, put) == positionals

\* resolution that also refuses values lacking a required positional
CheckedValuesEnforcesRequired(d, nd, positionals, named) ==
    LET part == PartitionNamed(d.positional_defines, nd, named, <<>>, <<>>)
    IN  IF part.outcome # "ok" THEN Raise(part.outcome)
        ELSE LET put == PutNamedPoses(positionals,
                                      SortNamedPoses(part.named_poses))
                 intact == CallerPositionals(positionals, put) = positionals
             IN  IF put.outcome # "ok"
                 THEN [Raise(put.outcome) EXCEPT !.args_intact = intact]
                 ELSE LET chk == CheckPositionals(d.positional_defines,
                                     d.last_repeat, put.positionals, <<>>)
                      IN  IF chk.outcome # "ok"
                          THEN [Raise(chk.outcome) EXCEPT
                                   !.args_intact = intact]
                          ELSE IF \E i \in 1 .. Len(d.positional_defines) :
                                     /\ d.positional_defines[i].is_required
                                     /\ i > Len(chk.poses)
                          THEN [Raise("MissingPositional") EXCEPT
                                   !.args_intact = intact]
                          ELSE [Result("ok", chk.poses, part.options, <<>>)
                                   EXCEPT !.args_intact = intact]

\* ParameterDefinitions.checked_values: the named mapping is only iterated
\* and the options are collected in a new mapping
CheckedValues(d, nd, positionals, named) ==
    LET part == PartitionNamed(d.positional_defines, nd, named, <<>>, <<>>)
    IN  IF part.outcome # "ok" THEN Raise(part.outcome)
        ELSE LET put == PutNamedPoses(positionals,
                                      SortNamedPoses(part.named_poses))
                 intact == CallerPositionals(positionals, put) = positionals
             IN  IF put.outcome # "ok"
                 THEN [Raise(put.outcome) EXCEPT !.args_intact = intact]
                 ELSE LET chk == CheckPositionals(d.positional_defines,
                                     d.last_repeat, put.positionals, <<>>)
                      IN  IF chk.outcome # "ok"
                          THEN [Raise(chk.outcome) EXCEPT
                                   !.args_intact = intact]
                          ELSE [Result("ok", chk.poses, part.options, <<>>)
                                   EXCEPT !.args_intact = intact]

-----------------------------------------------------------------------------
(* ParameterDefinitions.make_cmdline (caller/defines.py) *)

\* a string becomes [cmd], a sequence list(cmd)
CmdList(cmd) ==
    IF cmd.is_string THEN <<Token("cmd", cmd.string, 0)>>
    ELSE [i \in 1 .. Len(cmd.items) |-> Token("cmd", cmd.items[i], 0)]

\* `if pdef.is_required and i >= len(positionals)` for some define
MissingPositional(pdefs, positionals) ==
    \E i \in 0 .. (Len(pdefs) - 1) :
        pdefs[i + 1].is_required /\ i >= Len(positionals)

\* `if odef.is_required and odef.name not in named` for some define
MissingOption(odefs, named) ==
    \E o \in 1 .. Len(odefs) :
        odefs[o].is_required /\ ~DictHas(named, odefs[o].name)

RECURSIVE PosStrs(_, _, _, _)
\* `for value in positionals: pdef = next(pdef_iter);
\*  pos_strs.append(pdef.to_string(value))`
PosStrs(pdefs, last_repeat, positionals, pos_strs) ==
    IF Len(pos_strs) = Len(positionals)
    THEN [outcome |-> "ok", strs |-> pos_strs]
    ELSE LET g == GenDefines(pdefs, last_repeat, Len(pos_strs))
             value == positionals[Len(pos_strs) + 1]
         IN  IF g.kind = "stop"
             THEN [outcome |-> "StopIteration", strs |-> pos_strs]
             ELSE IF g.kind = "unbound"
             THEN [outcome |-> "UnboundLocalError", strs |-> pos_strs]
             ELSE IF ~DefineToString(pdefs[g.at], value).ok
             THEN [outcome |-> "ValidationError", strs |-> pos_strs]
             ELSE PosStrs(pdefs, last_repeat, positionals,
                      Append(pos_strs, DefineToString(pdefs[g.at], value).str))

RECURSIVE NamedStrs(_, _, _)
\* `for key, value in named.items(): ndef = self._named_dict[key];
\*  named_strs.append(ndef.to_string(value))`
NamedStrs(nd, named, named_strs) ==
    IF Len(named_strs) = Len(named)
    THEN [outcome |-> "ok", strs |-> named_strs]
    ELSE LET key == named[Len(named_strs) + 1][1]
             value == named[Len(named_strs) + 1][2]
         IN  IF key \notin DOMAIN nd
             THEN [outcome |-> "KeyError", strs |-> named_strs]
             ELSE IF ~DefineToString(nd[key], value).ok
             THEN [outcome |-> "ValidationError", strs |-> named_strs]
             ELSE NamedStrs(nd, named,
                      Append(named_strs, DefineToString(nd[key], value).str))

\* _compile with the positionals put before the options
CompilePositionalsFirst(cmd, pos_strs, named_strs) ==
    cmd \o pos_strs \o named_strs

\* ParameterDefinitions._compile: tuple(cmd + named_strs + pos_strs)
Compile(cmd, pos_strs, named_strs) == cmd \o named_strs \o pos_strs

\* make_cmdline without its two loops over the required defines
MakeCheckedSkipsRequired(d, nd, cmd, positionals, named) ==
    LET ps == PosStrs(d.positional_defines, d.last_repeat, positionals, <<>>)
    IN  IF ps.outcome # "ok" THEN Raise(ps.outcome)
        ELSE LET ns == NamedStrs(nd, named, <<>>)
             IN  IF ns.outcome # "ok" THEN Raise(ns.outcome)
                 ELSE Result("ok", <<>>, <<>>,
                             Compile(CmdList(cmd), ps.strs, ns.strs))

\* make_cmdline once positionals and named are the checked values
MakeChecked(d, nd, cmd, positionals, named) ==
    IF MissingPositional(d.positional_defines, positionals)
    THEN Raise("MissingPositional")
    ELSE IF MissingOption(d.option_defines, named)
    THEN Raise("MissingOption")
    ELSE LET ps == PosStrs(d.positional_defines, d.last_repeat,
                           positionals, <<>>)
         IN  IF ps.outcome # "ok" THEN Raise(ps.outcome)
             ELSE LET ns == NamedStrs(nd, named, <<>>)
                  IN  IF ns.outcome # "ok" THEN Raise(ns.outcome)
                      ELSE Result("ok", <<>>, <<>>,
                                  Compile(CmdList(cmd), ps.strs, ns.strs))

MakeCmdline(d, nd, cmd, positionals, named, checked) ==
    IF checked THEN MakeChecked(d, nd, cmd, positionals, named)
    ELSE LET cv == CheckedValues(d, nd, positionals, named)
         IN  IF cv.outcome # "ok" THEN cv
             ELSE [MakeChecked(d, nd, cmd, cv.poses, cv.options) EXCEPT
                      !.args_intact = cv.args_intact]

-----------------------------------------------------------------------------
(* The definitions a program declares *)

PA == Positional("param1", <<"p1">>, "ident", TRUE)
PB == Positional("param2", <<>>, "coerce", FALSE)
PC == Positional("param1", <<>>, "strict", TRUE)
PD == Positional("param2", <<>>, "parse", FALSE)
PX == Positional("param3", <<"p1">>, "ident", FALSE)

OA == Option("option1", <<"o1">>, "ident", FALSE, FALSE)
OB == Option("option2", <<>>, "strict", TRUE, FALSE)
OF == Option("option3", <<>>, "ident", FALSE, TRUE)
OP == Option("option2", <<>>, "parse", FALSE, FALSE)
OX == Option("option4", <<"o1">>, "ident", FALSE, FALSE)
OY == Option("p1", <<>>, "ident", FALSE, FALSE)

PositionalChoices ==
    {<<>>, <<PA>>, <<PA, PB>>, <<PC, PD>>, <<PA, PC>>, <<PA, PX>>}

OptionChoices ==
    {<<>>, <<OA>>, <<OA, OB>>, <<OF, OP>>, <<OA, OX>>, <<OB, OP>>, <<OY>>}

\* every pairing of the positionals with the options, and the positionals
\* alone with the last of them repeating
CandidateDefinitions ==
    {d \in [positional_defines : PositionalChoices,
            option_defines : OptionChoices,
            last_repeat : BOOLEAN] :
        d.last_repeat => d.option_defines = <<>>}

NoCmd == [is_string |-> TRUE, string |-> "", items |-> <<>>]

\* a command given as one string, and one given as a sequence
CmdInputs ==
    {[is_string |-> TRUE, string |-> "cmd", items |-> <<>>],
     [is_string |-> FALSE, string |-> "",
      items |-> <<"python", "app1.py">>]}

\* the child process of a run(): whether it was started, its exit code and
\* what it wrote to its standard output and standard error
Child(started, code, out, err) ==
    [started |-> started, code |-> code, out |-> out, err |-> err]

NoChild == Child(FALSE, 0, "", "")

\* a call: the operation, its arguments and, for run(), the child process
NoCall == [op |-> "none", cmd |-> NoCmd, positionals |-> <<>>, named |-> <<>>,
           checked |-> FALSE, child |-> NoChild]

NoReturn == Result("none", <<>>, <<>>, <<>>)

NoApp == [exists |-> FALSE, positionals |-> <<>>, options |-> <<>>]

-----------------------------------------------------------------------------
(* biocaller.commandline: the older command line classes *)

\* the largest number a caller supplies, counted in halves (2 is 1.0)
MaxHalves == 2

\* Python values: None, a string, an int or a float; a number is held as
\* its count of halves (h), a string as its text (s)
PyNone == [type |-> "none", s |-> "", h |-> 0]

PyStr(s) == [type |-> "str", s |-> s, h |-> 0]

PyNum(type, h) == [type |-> type, s |-> "", h |-> h]

\* the text of the number of h halves, at index h + 1
HalfStrs == <<"0", "0.5", "1", "1.5", "2", "2.5", "3", "3.5", "4">>

\* bool(v)
PyTruthy(v) ==
    CASE v.type = "none" -> FALSE
      [] v.type = "str" -> v.s # ""
      [] OTHER -> v.h # 0

\* v in [0, 1]: a number equal to 0 or to 1, whatever its type
InZeroOne(v) == v.type \in {"int", "float"} /\ v.h \in {0, 2}

\* what a call returns: the value, or that it raised
Returned(v) == [raised |-> FALSE, value |-> v]

Raised == [raised |-> TRUE, value |-> PyNone]

\* int(var)
PyIntOf(var) ==
    CASE var.type = "int" -> Returned(var)
      [] var.type = "float" -> Returned(PyNum("int", var.h - (var.h % 2)))
      [] var.type = "str" ->
           IF \E h \in 0 .. Len(HalfStrs) - 1 :
                  h % 2 = 0 /\ HalfStrs[h + 1] = var.s
           THEN Returned(PyNum("int",
                    CHOOSE h \in 0 .. Len(HalfStrs) - 1 :
                        HalfStrs[h + 1] = var.s))
           ELSE Raised
      [] OTHER -> Raised

\* float(var)
PyFloatOf(var) ==
    CASE var.type \in {"int", "float"} -> Returned(PyNum("float", var.h))
      [] var.type = "str" ->
           IF \E h \in 0 .. Len(HalfStrs) - 1 : HalfStrs[h + 1] = var.s
           THEN Returned(PyNum("float",
                    CHOOSE h \in 0 .. Len(HalfStrs) - 1 :
                        HalfStrs[h + 1] = var.s))
           ELSE Raised
      [] OTHER -> Raised

\* the range test of checkint and checkfloat on the converted value
InRange(r, mn, mx) ==
    IF r.raised THEN Raised
    ELSE IF PyTruthy(mn) /\ r.value.h < mn.h THEN Raised
    ELSE IF PyTruthy(mx) /\ r.value.h > mx.h THEN Raised
    ELSE r

\* checkint(var, mn, mx)
checkint(var, mn, mx) == InRange(PyIntOf(var), mn, mx)

\* checkfloat(var, mn, mx)
checkfloat(var, mn, mx) == InRange(PyFloatOf(var), mn, mx)

\* check_is_str(var)
check_is_str(var) == IF var.type = "str" THEN Returned(var) ELSE Raised

\* a checker of the other documented kind, a [0, 1] decision: here, whether
\* the value is a number
good_bad(var) ==
    Returned(PyNum("int", IF var.type \in {"int", "float"} THEN 2 ELSE 0))

\* a checker_function: None, or a function of one argument
NoChecker == [fn |-> "None", mn |-> PyNone, mx |-> PyNone]

CheckerFunction(fn, mn, mx) == [fn |-> fn, mn |-> mn, mx |-> mx]

\* check_function(value)
CheckerCall(check_function, value) ==
    CASE check_function.fn = "checkint" ->
           checkint(value, check_function.mn, check_function.mx)
      [] check_function.fn = "checkfloat" ->
           checkfloat(value, check_function.mn, check_function.mx)
      [] check_function.fn = "check_is_str" -> check_is_str(value)
      [] OTHER -> good_bad(value)

\* _AbstractParameter(names, types, checker_function, is_required): an
\* _Option or an _Argument, not set and without a value
AbstractParameter(cls, names, checker_function, is_required) ==
    [cls |-> cls, names |-> names, checker_function |-> checker_function,
     is_required |-> is_required, is_set |-> 0, value |-> PyNone]

\* names[0].find("--") >= 0, and names[0].find("-") >= 0
LongNames == {"--level"}

DashNames == LongNames \cup {"-f"}

\* str(parameter): the name, the separator and the value it writes
Fragment(name, sep, value) == [name |-> name, sep |-> sep, value |-> value]

ParameterStr(p) ==
    IF p.cls = "_Argument"
    THEN [raised |-> FALSE, text |-> Fragment("", "", p.value)]
    ELSE IF p.names[1] \in LongNames
    THEN [raised |-> FALSE,
          text |-> Fragment(p.names[1],
                            IF p.value # PyNone THEN "=" ELSE "", p.value)]
    ELSE IF p.names[1] \in DashNames
    THEN [raised |-> FALSE, text |-> Fragment(p.names[1], " ", p.value)]
    ELSE [raised |-> TRUE, text |-> Fragment("", "", PyNone)]

\* AbstractCommandline._check_value(value, name, check_function)
CheckValue(value, check_function) ==
    IF check_function = NoChecker THEN "ok"
    ELSE LET is_good == CheckerCall(check_function, value)
         IN  IF is_good.raised THEN "CheckerError"
             ELSE IF InZeroOne(is_good.value) /\ ~PyTruthy(is_good.value)
             THEN "InvalidValue"
             ELSE "ok"

\* the loop of set_parameter from parameter i on
RECURSIVE SetParameterFrom(_, _, _, _, _)
SetParameterFrom(parameters, i, name, value, set_option) ==
    IF i > Len(parameters)
    THEN [parameters |-> parameters,
          outcome |-> IF set_option = 0 THEN "OptionNotFound" ELSE "ok"]
    ELSE IF \E k \in 1 .. Len(parameters[i].names) :
                parameters[i].names[k] = name
    THEN LET chk == IF value # PyNone
                    THEN CheckValue(value, parameters[i].checker_function)
                    ELSE "ok"
         IN  IF chk # "ok"
             THEN [parameters |-> parameters, outcome |-> chk]
             ELSE SetParameterFrom(
                      [parameters EXCEPT
                          ![i] = [@ EXCEPT
                                    !.value = IF value # PyNone
                                              THEN value ELSE @,
                                    !.is_set = 1]],
                      i + 1, name, value, 1)
    ELSE SetParameterFrom(parameters, i + 1, name, value, set_option)

\* AbstractCommandline.set_parameter(name, value)
set_parameter(parameters, name, value) ==
    SetParameterFrom(parameters, 1, name, value, 0)

\* the loop of __str__ from parameter i on
RECURSIVE StrFrom(_, _, _)
StrFrom(parameters, i, commandline) ==
    IF i > Len(parameters)
    THEN [outcome |-> "ok", commandline |-> commandline]
    ELSE IF parameters[i].is_required /\ parameters[i].is_set = 0
    THEN [outcome |-> "ParameterNotSet", commandline |-> <<>>]
    ELSE IF parameters[i].is_set = 0
    THEN StrFrom(parameters, i + 1, commandline)
    ELSE IF ParameterStr(parameters[i]).raised
    THEN [outcome |-> "UnrecognizedOption", commandline |-> <<>>]
    ELSE StrFrom(parameters, i + 1,
                 Append(commandline, ParameterStr(parameters[i]).text))

\* AbstractCommandline.__str__
CommandlineStr(c) ==
    StrFrom(c.parameters, 1, <<Fragment(c.program_name, "", PyNone)>>)

\* the last call on a command line object and what came of it
NoCommandlineCall ==
    [op |-> "none", name |-> "", value |-> PyNone, outcome |-> "none",
     commandline |-> <<>>]

\* AbstractCommandline(): no program name and no parameters
NoCommandline ==
    [program_name |-> "", parameters |-> <<>>, last |-> NoCommandlineCall]

\* no ParameterDefinitions are in use
NoDefinitions ==
    [positional_defines |-> <<>>, option_defines |-> <<>>,
     last_repeat |-> FALSE]

\* BetCommandline('bet')
BetCommandline ==
    [program_name |-> "bet",
     parameters |->
        <<AbstractParameter("_Argument", <<"infile", "input file">>,
                            CheckerFunction("check_is_str", PyNone, PyNone),
                            TRUE),
          AbstractParameter("_Argument", <<"outfile", "output file">>,
                            CheckerFunction("check_is_str", PyNone, PyNone),
                            TRUE),
          AbstractParameter("_Option",
                            <<"-f", "frac", "fractional intensity threshold">>,
                            CheckerFunction("checkfloat", PyNone, PyNone),
                            FALSE)>>,
     last |-> NoCommandlineCall]

\* a command line of every kind of parameter and checker: a long option of
\* whole numbers from 1, an option without a dash checked by a [0, 1]
\* decision, and an unchecked argument that shares the name "level"
LevelCommandline ==
    [program_name |-> "level",
     parameters |->
        <<AbstractParameter("_Option", <<"--level", "level">>,
                            CheckerFunction("checkint", PyNum("int", 2), PyNone),
                            FALSE),
          AbstractParameter("_Option", <<"count">>,
                            CheckerFunction("good_bad", PyNone, PyNone),
                            FALSE),
          AbstractParameter("_Argument", <<"extra", "level">>,
                            NoChecker, FALSE)>>,
     last |-> NoCommandlineCall]

CommandlineDefinitions == {BetCommandline, LevelCommandline}

\* the names a caller may use: every declared name and one nobody declared
CommandlineNames(c) ==
    UNION {{c.parameters[i].names[k] :
               k \in 1 .. Len(c.parameters[i].names)} :
           i \in 1 .. Len(c.parameters)} \cup {"nosuch"}

\* the values a caller may supply
ValueInputs ==
    {PyNone, PyStr("x")}
    \cup {PyNum(IF h % 2 = 0 THEN "int" ELSE "float", h) : h \in 0 .. MaxHalves}
    \cup {PyStr(HalfStrs[h + 1]) : h \in 0 .. MaxHalves}

-----------------------------------------------------------------------------
(* The caller and its calls *)

Init ==
    /\ pc = "new"
    /\ defs \in CandidateDefinitions
    /\ named_dict = <<>>
    /\ call = NoCall
    /\ ret = NoReturn
    /\ app = NoApp
    /\ cl = NoCommandline

\* ParameterDefinitions(positional_defines, option_defines, pos_last_repeat)
Construct ==
    /\ pc = "new"
    /\ LET r == NewParameterDefinitions(defs.positional_defines,
                                        defs.option_defines)
       IN  /\ pc' = IF r.ok THEN "ready" ELSE "failed"
           /\ named_dict' = IF r.ok THEN r.d ELSE <<>>
           /\ ret' = IF r.ok THEN Result("ok", <<>>, <<>>, <<>>)
                      ELSE Raise("ValueError")
    /\ call' = [NoCall EXCEPT !.op = "init"]
    /\ UNCHANGED <<defs, app, cl>>

\* the keys a caller may use: every declared key and one nobody declared
CallerKeys(d) ==
    {ContainerKeys(d.positional_defines)[i] :
        i \in 1 .. Len(ContainerKeys(d.positional_defines))}
    \cup {ContainerKeys(d.option_defines)[i] :
        i \in 1 .. Len(ContainerKeys(d.option_defines))}
    \cup {"crazy"}

PositionalInputs ==
    UNION {[1 .. n -> RawValues] : n \in 0 .. MaxPositionals}

\* the named mappings, each in every iteration order
NamedInputs(d) ==
    UNION {{m \in [1 .. n -> CallerKeys(d) \X RawValues] :
               \A i, j \in 1 .. n : i # j => m[i][1] # m[j][1]} :
           n \in 0 .. MaxNamed}

\* pd.checked_values(positionals, named)
CheckedValuesCall ==
    /\ pc = "ready"
    /\ \E positionals \in PositionalInputs, named \in NamedInputs(defs) :
         /\ call' = [NoCall EXCEPT !.op = "checked_values",
                                   !.positionals = positionals,
                                   !.named = named]
         /\ ret' = CheckedValues(defs, named_dict, positionals, named)
    /\ pc' = "returned"
    /\ UNCHANGED <<defs, named_dict, app, cl>>

\* pd.make_cmdline(cmd, positionals, named), with checked left False
MakeCmdlineCall ==
    /\ pc = "ready"
    /\ \E cmd \in CmdInputs, positionals \in PositionalInputs,
          named \in NamedInputs(defs) :
         /\ call' = [NoCall EXCEPT !.op = "make_cmdline", !.cmd = cmd,
                                   !.positionals = positionals,
                                   !.named = named]
         /\ ret' = MakeCmdline(defs, named_dict, cmd, positionals, named,
                               FALSE)
    /\ pc' = "returned"
    /\ UNCHANGED <<defs, named_dict, app, cl>>

Next ==
    \/ Construct
    \/ CheckedValuesCall
    \/ MakeCmdlineCall

Spec == Init /\ [][Next]_vars

-----------------------------------------------------------------------------
(* AppWrapper and ShellWrapper (caller/wrappers.py) *)

\* longest positional value list given to a wrapper
MaxAppPositionals == 2

\* most entries of a named mapping given to a wrapper
MaxAppNamed == 1

\* the two positionals of App1Wrapper: required, no aliases, no checker
PT1 == Positional("param1", <<>>, "ident", TRUE)

PT2 == Positional("param2", <<>>, "ident", TRUE)

\* the parameter_definitions class attribute of the wrapper classes, that
\* of App1Wrapper the first
AppDefinitions ==
    {[positional_defines |-> <<PT1, PT2>>, option_defines |-> <<OA>>,
      last_repeat |-> FALSE],
     [positional_defines |-> <<PC>>, option_defines |-> <<OA, OB>>,
      last_repeat |-> FALSE],
     [positional_defines |-> <<PC, PD>>, option_defines |-> <<OF>>,
      last_repeat |-> TRUE]}

\* the cmd class attribute: (sys.executable, path of the script)
AppCmd == [is_string |-> FALSE, string |-> "", items |-> <<"python", "app1.py">>]

\* the exit codes of the child process
ExitCodes == {0, 1}

AppPositionalInputs ==
    UNION {[1 .. n -> RawValues] : n \in 0 .. MaxAppPositionals}

AppNamedInputs(d) ==
    UNION {{m \in [1 .. n -> CallerKeys(d) \X RawValues] :
               \A i, j \in 1 .. n : i # j => m[i][1] # m[j][1]} :
           n \in 0 .. MaxAppNamed}

\* the wrapper class exists, its definitions constructed, no instance yet
InitApp ==
    /\ pc = "ready"
    /\ defs \in AppDefinitions
    /\ named_dict = NewParameterDefinitions(defs.positional_defines,
                                            defs.option_defines).d
    /\ call = NoCall
    /\ ret = NoReturn
    /\ app = NoApp
    /\ cl = NoCommandline

\* set_parameters that empties the stored state before it resolves
SetParametersOnClearsFirst(w, d, nd, positionals, named) ==
    LET cv == CheckedValues(d, nd, positionals, named)
    IN  IF cv.outcome # "ok"
        THEN [app |-> [w EXCEPT !.positionals = <<>>, !.options = <<>>],
              ret |-> cv]
        ELSE [app |-> [w EXCEPT !.positionals = cv.poses,
                                !.options = cv.options],
              ret |-> cv]

\* set_parameters that stores the named mapping as it was supplied
SetParametersOnStoresSupplied(w, d, nd, positionals, named) ==
    LET cv == CheckedValues(d, nd, positionals, named)
    IN  IF cv.outcome # "ok" THEN [app |-> w, ret |-> cv]
        ELSE [app |-> [w EXCEPT !.positionals = cv.poses,
                                !.options = DictUpdate(w.options, named)],
              ret |-> cv]

\* AppWrapper.set_parameters on the stored state w: the new stored state
\* and what checked_values gave.  Both assignments come after
\* checked_values has returned.
SetParametersOn(w, d, nd, positionals, named) ==
    LET cv == CheckedValues(d, nd, positionals, named)
    IN  IF cv.outcome # "ok" THEN [app |-> w, ret |-> cv]
        ELSE [app |-> [w EXCEPT !.positionals = cv.poses,
                                !.options = DictUpdate(w.options, cv.options)],
              ret |-> cv]

\* AppWrapper(positionals, named): _positionals = (), _options = {}, then
\* set_parameters; an exception leaves no instance and ends the program
AppInit ==
    /\ pc = "ready"
    /\ \E positionals \in AppPositionalInputs, named \in AppNamedInputs(defs) :
         LET r == SetParametersOn([exists |-> TRUE, positionals |-> <<>>,
                                   options |-> <<>>],
                                  defs, named_dict, positionals, named)
         IN  /\ call' = [NoCall EXCEPT !.op = "AppWrapper",
                                       !.positionals = positionals,
                                       !.named = named]
             /\ ret' = r.ret
             /\ app' = IF r.ret.outcome = "ok" THEN r.app ELSE NoApp
             /\ pc' = IF r.ret.outcome = "ok" THEN "app" ELSE "failed"
    /\ UNCHANGED <<defs, named_dict, cl>>

\* app.set_parameters(positionals, named).  Of the call only its name is
\* recorded: ret holds what checked_values made of the arguments.
SetParameters ==
    /\ pc = "app"
    /\ \E positionals \in AppPositionalInputs, named \in AppNamedInputs(defs) :
         LET r == SetParametersOn(app, defs, named_dict, positionals, named)
         IN  /\ ret' = r.ret
             /\ app' = r.app
    /\ call' = [NoCall EXCEPT !.op = "set_parameters"]
    /\ UNCHANGED <<pc, defs, named_dict, cl>>

\* what the child process wrote to its standard output and to its standard
\* error
ChildOut == "out"

ChildErr == "err"

\* ShellWrapper._execute: (out, err) = child.communicate(); returns
\* error_code, StringIO(out), StringIO(err)
ShellExecute(child) == <<child.code, child.out, child.err>>

\* run() raising OSError when the exit code is not zero
RunReturnsRaisingOnFailure(mc, e) ==
    IF e[1] # 0 THEN [Raise("OSError") EXCEPT !.executed = TRUE]
    ELSE [mc EXCEPT !.executed = TRUE,
                    !.result = ShellResult(e[1], e[2], e[3])]

\* `return self.result_maker(*self._execute(cmdstr))`
RunReturns(mc, e) ==
    [mc EXCEPT !.executed = TRUE, !.result = ShellResult(e[1], e[2], e[3])]

\* subprocess.Popen raising: the child process could not be started
ExecuteRaises == [Raise("OSError") EXCEPT !.executed = TRUE]

\* the call app.run() with the child process it met
RunCall(child) ==
    [NoCall EXCEPT !.op = "run", !.cmd = AppCmd, !.checked = TRUE,
                   !.child = child]

\* run() that drops the stored values when it fails
RunForgetsOnFailure ==
    /\ pc = "app"
    /\ LET mc == MakeCmdline(defs, named_dict, AppCmd, app.positionals,
                             app.options, TRUE)
       IN  IF mc.outcome # "ok"
           THEN /\ ret' = mc
                /\ call' = RunCall(NoChild)
                /\ app' = [app EXCEPT !.positionals = <<>>, !.options = <<>>]
           ELSE /\ \/ \E code \in ExitCodes :
                        LET child == Child(TRUE, code, ChildOut, ChildErr)
                        IN  /\ ret' = RunReturns(mc, ShellExecute(child))
                            /\ call' = RunCall(child)
                   \/ /\ ret' = ExecuteRaises
                      /\ call' = RunCall(NoChild)
                /\ app' = app
    /\ UNCHANGED <<pc, defs, named_dict, cl>>

\* app.run(): make_cmdline(cmd, _positionals, _options, checked=True), then
\* ShellWrapper._execute and the result maker
Run ==
    /\ pc = "app"
    /\ LET mc == MakeCmdline(defs, named_dict, AppCmd, app.positionals,
                             app.options, TRUE)
       IN  IF mc.outcome # "ok"
           THEN /\ ret' = mc
                /\ call' = RunCall(NoChild)
           ELSE \/ \E code \in ExitCodes :
                     LET child == Child(TRUE, code, ChildOut, ChildErr)
                     IN  /\ ret' = RunReturns(mc, ShellExecute(child))
                         /\ call' = RunCall(child)
                \/ /\ ret' = ExecuteRaises
                   /\ call' = RunCall(NoChild)
    /\ UNCHANGED <<pc, defs, named_dict, app, cl>>

NextApp ==
    \/ AppInit
    \/ SetParameters
    \/ Run

SpecApp == InitApp /\ [][NextApp]_vars

\* a program that uses its definitions directly and through a wrapper
NextAll ==
    \/ CheckedValuesCall
    \/ MakeCmdlineCall
    \/ AppInit
    \/ SetParameters
    \/ Run

SpecAll == InitApp /\ [][NextAll]_vars

-----------------------------------------------------------------------------
(* The caller of a biocaller command line *)

\* a command line object exists, its parameters declared, nothing set
InitCommandline ==
    /\ pc = "commandline"
    /\ defs = NoDefinitions
    /\ named_dict = <<>>
    /\ call = NoCall
    /\ ret = NoReturn
    /\ app = NoApp
    /\ cl \in CommandlineDefinitions

\* commandline.set_parameter(name, value)
SetParameterCall ==
    /\ pc = "commandline"
    /\ \E name \in CommandlineNames(cl), value \in ValueInputs :
          LET r == set_parameter(cl.parameters, name, value)
          IN  cl' = [cl EXCEPT
                        !.parameters = r.parameters,
                        !.last = [op |-> "set_parameter", name |-> name,
                                  value |-> value, outcome |-> r.outcome,
                                  commandline |-> <<>>]]
    /\ UNCHANGED <<pc, defs, named_dict, call, ret, app>>

\* str(commandline)
StrCall ==
    /\ pc = "commandline"
    /\ LET r == CommandlineStr(cl)
       IN  cl' = [cl EXCEPT
                     !.last = [op |-> "__str__", name |-> "",
                               value |-> PyNone, outcome |-> r.outcome,
                               commandline |-> r.commandline]]
    /\ UNCHANGED <<pc, defs, named_dict, call, ret, app>>

NextCommandline ==
    \/ SetParameterCall
    \/ StrCall

SpecCommandline == InitCommandline /\ [][NextCommandline]_vars

-----------------------------------------------------------------------------
(* Properties of resolution: checked_values *)

PosDefs == defs.positional_defines

OptDefs == defs.option_defines

\* a checked_values call has returned or raised
CheckedValuesDone == pc = "returned" /\ call.op = "checked_values"

\* a make_cmdline call has returned or raised
MakeCmdlineDone == pc = "returned" /\ call.op = "make_cmdline"

IsPositionalKey(key) == \E i \in 1 .. Len(PosDefs) : InSeq(key, Keys(PosDefs[i]))

IsOptionKey(key) == \E o \in 1 .. Len(OptDefs) : InSeq(key, Keys(OptDefs[o]))

IsUnknownKey(key) == ~IsPositionalKey(key) /\ ~IsOptionKey(key)

\* the declared slot (0-based) a positional key names
SlotOf(key) == CHOOSE i \in 0 .. (Len(PosDefs) - 1) : InSeq(key, Keys(PosDefs[i + 1]))

\* the declared option an option key names
OptionOf(key) == OptDefs[CHOOSE o \in 1 .. Len(OptDefs) : InSeq(key, Keys(OptDefs[o]))]

\* the define that checks the value at 0-based index i of a positional list
SlotDefine(i) == PosDefs[IF i < Len(PosDefs) THEN i + 1 ELSE Len(PosDefs)]

\* entry n of the named mapping is an option whose checker rejects its value
RejectedOption(n) ==
    /\ ~IsPositionalKey(call.named[n][1])
    /\ IsOptionKey(call.named[n][1])
    /\ CheckerRaises(OptionOf(call.named[n][1]).checker, call.named[n][2])

UnknownEntry(n) == IsUnknownKey(call.named[n][1])

HasUnknownEntry == \E n \in 1 .. Len(call.named) : UnknownEntry(n)

\* an option's checker rejects a value before any unknown key is met
RejectedBeforeUnknown ==
    \E m \in 1 .. Len(call.named) :
        /\ RejectedOption(m)
        /\ \A n \in 1 .. (m - 1) : ~UnknownEntry(n)

\* C1 as stated: a named mapping with an unknown key always fails with the
\* Unknown Parameter error, whatever the other keys are.
C1_UnknownKeyAlwaysUnknownParameter ==
    (CheckedValuesDone /\ HasUnknownEntry) => ret.outcome = "UnknownParameter"

\* C1 amended: a named mapping with an unknown key always fails; the error
\* is Unknown Parameter unless an option that precedes the first unknown key
\* in the mapping's iteration order has a value its checker rejects, and
\* then it is that checker's error.
C1_UnknownKeyFails ==
    (CheckedValuesDone /\ HasUnknownEntry) =>
        /\ ret.outcome # "ok"
        /\ (~RejectedBeforeUnknown => ret.outcome = "UnknownParameter")
        /\ (RejectedBeforeUnknown => ret.outcome = "ValidationError")

\* C1 witness: an unknown key after a valid option and with positional
\* values supplied raises Unknown Parameter
C1_Witness ==
    /\ CheckedValuesDone
    /\ Len(call.named) = 2
    /\ IsOptionKey(call.named[1][1])
    /\ UnknownEntry(2)
    /\ call.positionals # <<>>
    /\ ret.outcome = "UnknownParameter"

\* C2: with an empty named mapping, an accepted positional list comes back
\* with the same length, element i being the checker of slot i (of the last
\* declared slot beyond the declared count) applied to value i, and the
\* option mapping is empty.
C2_PositionalsCheckedInOrder ==
    (CheckedValuesDone /\ call.named = <<>> /\ ret.outcome = "ok") =>
        /\ Len(ret.poses) = Len(call.positionals)
        /\ \A i \in 0 .. (Len(call.positionals) - 1) :
              ret.poses[i + 1] =
                  Checker(SlotDefine(i).checker, call.positionals[i + 1])
        /\ ret.options = <<>>

\* C2 witness: a globbing call with more values than declared slots, whose
\* checkers change the values
C2_Witness ==
    /\ CheckedValuesDone
    /\ call.named = <<>>
    /\ ret.outcome = "ok"
    /\ Len(PosDefs) = 2
    /\ Len(call.positionals) = 3
    /\ ret.poses # call.positionals

\* the named entries that name a positional slot
NamedPositional(n) == IsPositionalKey(call.named[n][1])

\* entry n is the last entry of the mapping, in iteration order, for its slot
LastForSlot(n) ==
    \A m \in (n + 1) .. Len(call.named) :
        NamedPositional(m) => SlotOf(call.named[m][1]) # SlotOf(call.named[n][1])

NoPositionalKeyInOptions ==
    \A j \in 1 .. Len(ret.options) : ~IsPositionalKey(ret.options[j][1])

\* the value of named entry n, checked, is the element at its slot
AtItsSlot(n) ==
    LET i == SlotOf(call.named[n][1])
    IN  /\ i < Len(ret.poses)
        /\ ret.poses[i + 1] = Checker(SlotDefine(i).checker, call.named[n][2])

\* C3 as stated: every named entry whose key names slot i ends up as
\* element i of the returned positionals, and no positional key is a key of
\* the returned options.
C3_EveryNamedPositionalAtSlot ==
    (CheckedValuesDone /\ ret.outcome = "ok") =>
        /\ \A n \in 1 .. Len(call.named) : NamedPositional(n) => AtItsSlot(n)
        /\ NoPositionalKeyInOptions

\* C3 amended: of the named entries whose keys name slot i, the last one in
\* the mapping's iteration order ends up (checked by the slot's checker) as
\* element i of the returned positionals, and no positional key is a key of
\* the returned options.
C3_LastNamedPositionalAtSlot ==
    (CheckedValuesDone /\ ret.outcome = "ok") =>
        /\ \A n \in 1 .. Len(call.named) :
              (NamedPositional(n) /\ LastForSlot(n)) => AtItsSlot(n)
        /\ NoPositionalKeyInOptions

\* C3 witness: a named positional overwrites a supplied value while
\* another is appended
C3_Witness ==
    /\ CheckedValuesDone
    /\ ret.outcome = "ok"
    /\ Len(call.positionals) = 1
    /\ Len(call.named) = 2
    /\ NamedPositional(1) /\ NamedPositional(2)
    /\ SlotOf(call.named[1][1]) # SlotOf(call.named[2][1])
    /\ ret.poses[1] # call.positionals[1]

\* the mapping passes the first loop: no unknown key, no rejected option
PartitionPasses ==
    \A n \in 1 .. Len(call.named) : ~UnknownEntry(n) /\ ~RejectedOption(n)

NamedSlots ==
    {SlotOf(call.named[n][1]) : n \in {m \in 1 .. Len(call.named) : NamedPositional(m)}}

\* a named slot lies beyond the supplied values with an unnamed slot between
NamedSlotLeavesGap ==
    \E i \in NamedSlots :
        /\ i > Len(call.positionals)
        /\ \E j \in Len(call.positionals) .. (i - 1) : j \notin NamedSlots

\* C4: named positionals are applied in ascending slot order, so the call
\* fails with Misplaced Positional exactly when a named slot lies beyond
\* the end of the list as extended by the named slots below it.
C4_MisplacedExactlyOnGap ==
    (CheckedValuesDone /\ PartitionPasses) =>
        (ret.outcome = "MisplacedPositional" <=> NamedSlotLeavesGap)

\* C4 witness: slots named in descending mapping order are appended without
\* error
C4_Witness ==
    /\ CheckedValuesDone
    /\ call.positionals = <<>>
    /\ Len(call.named) = 2
    /\ NamedPositional(1) /\ NamedPositional(2)
    /\ SlotOf(call.named[1][1]) = 1
    /\ SlotOf(call.named[2][1]) = 0
    /\ ret.outcome = "ok"

RequiredCount ==
    Cardinality({i \in 1 .. Len(PosDefs) : PosDefs[i].is_required})

\* no supplied value is one the checker of its slot rejects
ValuesAccepted ==
    \A i \in 0 .. (Len(call.positionals) - 1) :
        (Len(PosDefs) > 0 /\ (i < Len(PosDefs) \/ defs.last_repeat)) =>
            ~CheckerRaises(SlotDefine(i).checker, call.positionals[i + 1])

\* C5: without globbing more values than declared slots fail with Too Many
\* Positionals; with globbing every number of values at or above the
\* required count succeeds, the extra values checked by the last declared
\* slot.  (Stated for values their checkers accept.)
C5_TooManyUnlessGlobbing ==
    (CheckedValuesDone /\ call.named = <<>> /\ ValuesAccepted) =>
        /\ (~defs.last_repeat /\ Len(call.positionals) > Len(PosDefs)) =>
               ret.outcome = "TooManyPositionals"
        /\ (defs.last_repeat /\ Len(call.positionals) >= RequiredCount) =>
               /\ ret.outcome = "ok"
               /\ \A i \in Len(PosDefs) .. (Len(call.positionals) - 1) :
                     ret.poses[i + 1] =
                         Checker(PosDefs[Len(PosDefs)].checker,
                                 call.positionals[i + 1])

-----------------------------------------------------------------------------
(* Properties of compilation: make_cmdline *)

\* what checked_values makes of the arguments of the call
Resolved == CheckedValues(defs, named_dict, call.positionals, call.named)

\* a required slot has no resolved value or a required option no entry
MissingRequired(poses, options) ==
    \/ \E i \in 1 .. Len(PosDefs) : PosDefs[i].is_required /\ Len(poses) < i
    \/ \E o \in 1 .. Len(OptDefs) :
          OptDefs[o].is_required /\ OptDefs[o].name \notin DictKeys(options)

MissingOutcomes == {"MissingPositional", "MissingOption"}

\* C6: for a resolvable input, make_cmdline fails with a missing-required
\* error exactly when a required slot or a required option has no resolved
\* value, and otherwise returns a command line.
C6_MissingRequiredOrCommandLine ==
    (MakeCmdlineDone /\ Resolved.outcome = "ok") =>
        /\ (ret.outcome \in MissingOutcomes
               <=> MissingRequired(Resolved.poses, Resolved.options))
        /\ (~MissingRequired(Resolved.poses, Resolved.options) =>
               ret.outcome = "ok")

\* the fragment of option j and of positional i (0-based) of the resolved
\* values cv
OptionFragment(cv, j) ==
    DefineToString(OptionOf(cv.options[j][1]), cv.options[j][2]).str

PositionalFragment(cv, i) ==
    DefineToString(SlotDefine(i), cv.poses[i + 1]).str

PrefixLen == IF call.cmd.is_string THEN 1 ELSE Len(call.cmd.items)

\* C7: a returned command line is the command prefix, then the fragment of
\* every resolved option, then the fragments of the resolved positionals in
\* slot order.
C7_PrefixOptionsPositionals ==
    (MakeCmdlineDone /\ ret.outcome = "ok") =>
        LET cv == Resolved
            no == Len(cv.options)
            np == Len(cv.poses)
        IN  /\ Len(ret.cmdline) = PrefixLen + no + np
            /\ \A t \in 1 .. PrefixLen :
                  /\ ret.cmdline[t].kind = "cmd"
                  /\ ret.cmdline[t].name =
                        (IF call.cmd.is_string THEN call.cmd.string
                         ELSE call.cmd.items[t])
            /\ \A j \in 1 .. no :
                  /\ ret.cmdline[PrefixLen + j] = OptionFragment(cv, j)
                  /\ ret.cmdline[PrefixLen + j].kind \in {"option", "empty"}
            /\ \A i \in 0 .. (np - 1) :
                  /\ ret.cmdline[PrefixLen + no + i + 1] =
                        PositionalFragment(cv, i)
                  /\ ret.cmdline[PrefixLen + no + i + 1].kind = "text"

\* C7 witness: a command of two strings compiled with an option and two
\* positionals
C7_Witness ==
    /\ MakeCmdlineDone
    /\ ret.outcome = "ok"
    /\ ~call.cmd.is_string
    /\ Len(call.named) >= 1
    /\ Len(Resolved.options) >= 1
    /\ Len(Resolved.poses) >= 2
    /\ ret.cmdline[3].kind = "option"
    /\ ret.cmdline[Len(ret.cmdline)].kind = "text"

-----------------------------------------------------------------------------
(* Properties of construction *)

\* the declared parameters, positionals first
AllDefs == PosDefs \o OptDefs

KeysOf(a) == {Keys(AllDefs[a])[k] : k \in 1 .. Len(Keys(AllDefs[a]))}

DeclaredKeys == UNION {KeysOf(a) : a \in 1 .. Len(AllDefs)}

\* some key is claimed by two parameters
KeyClaimedTwice ==
    \E a, b \in 1 .. Len(AllDefs) : a # b /\ KeysOf(a) \cap KeysOf(b) # {}

\* all keys are pairwise distinct
KeysPairwiseDistinct ==
    /\ ~KeyClaimedTwice
    /\ \A a \in 1 .. Len(AllDefs) :
          Cardinality(KeysOf(a)) = Len(Keys(AllDefs[a]))

Constructed == pc \in {"ready", "returned"}

\* C8 (once the constructor has run): construction fails when a key is
\* claimed by more than one parameter and succeeds when all keys are
\* pairwise distinct, every key then mapping to its one owner in the name
\* table.
C8_DuplicateKeysRejected ==
    (call.op = "init") =>
        /\ KeyClaimedTwice => (pc = "failed" /\ ret.outcome = "ValueError")
        /\ KeysPairwiseDistinct =>
              /\ Constructed
              /\ DOMAIN named_dict = DeclaredKeys
              /\ \A a \in 1 .. Len(AllDefs) :
                    \A key \in KeysOf(a) : named_dict[key] = AllDefs[a]

\* C8 witness: an option claims a key of a positional and construction
\* fails
C8_Witness ==
    /\ pc = "failed"
    /\ \E i \in 1 .. Len(PosDefs), o \in 1 .. Len(OptDefs) :
          KeysOf(i) \cap KeysOf(Len(PosDefs) + o) # {}
    /\ \A a, b \in 1 .. Len(PosDefs) : a # b => KeysOf(a) \cap KeysOf(b) = {}
    /\ \A a, b \in 1 .. Len(OptDefs) :
          a # b => KeysOf(Len(PosDefs) + a) \cap KeysOf(Len(PosDefs) + b) = {}

-----------------------------------------------------------------------------
(* Properties of option names *)

IsOptionName(key) == \E o \in 1 .. Len(OptDefs) : OptDefs[o].name = key

\* entry n of the named mapping is an option under an alias, its canonical
\* name not being a key of the mapping
AliasEntry(n) ==
    /\ ~IsPositionalKey(call.named[n][1])
    /\ IsOptionKey(call.named[n][1])
    /\ ~IsOptionName(call.named[n][1])
    /\ ~DictHas(call.named, OptionOf(call.named[n][1]).name)

\* the named mapping with the key of entry n replaced by the canonical name
WithCanonicalName(n) ==
    [m \in 1 .. Len(call.named) |->
        IF m = n THEN <<OptionOf(call.named[n][1]).name, call.named[n][2]>>
        ELSE call.named[m]]

\* C9: every key of the returned option mapping is a canonical option name,
\* and a value supplied under an alias resolves and compiles exactly as the
\* same value supplied under the canonical name.
C9_OptionsUnderCanonicalName ==
    /\ (CheckedValuesDone /\ ret.outcome = "ok") =>
          \A j \in 1 .. Len(ret.options) : IsOptionName(ret.options[j][1])
    /\ CheckedValuesDone =>
          \A n \in 1 .. Len(call.named) : AliasEntry(n) =>
              ret = CheckedValues(defs, named_dict, call.positionals,
                                  WithCanonicalName(n))
    /\ MakeCmdlineDone =>
          \A n \in 1 .. Len(call.named) : AliasEntry(n) =>
              ret = MakeCmdline(defs, named_dict, call.cmd, call.positionals,
                                WithCanonicalName(n), FALSE)

\* C9 witness: an option supplied under its alias is compiled under its
\* canonical name
C9_Witness ==
    /\ MakeCmdlineDone
    /\ ret.outcome = "ok"
    /\ \E n \in 1 .. Len(call.named) :
          /\ AliasEntry(n)
          /\ \E t \in 1 .. Len(ret.cmdline) :
                /\ ret.cmdline[t].kind = "option"
                /\ ret.cmdline[t].name = OptionOf(call.named[n][1]).name

-----------------------------------------------------------------------------
(* Properties of the application wrapper *)

DictItems(d) == {d[i] : i \in 1 .. Len(d)}

\* C10: after a successful set_parameters the stored positionals and the
\* stored option mapping are exactly the two outputs of checked_values for
\* that call, so an option of an earlier call that the latest call does not
\* name is no longer stored.
C10_SetParametersReplacesState ==
    (pc = "app" /\ call.op = "set_parameters" /\ ret.outcome = "ok") =>
        /\ app.positionals = ret.poses
        /\ DictItems(app.options) = DictItems(ret.options)

\* C11: a set_parameters call that fails, for whatever reason, leaves the
\* stored positionals and the stored option mapping of the wrapper exactly
\* as they were before the call, whatever calls came earlier.
C11_FailedSetParametersKeepsState ==
    [][(pc = "app" /\ call'.op = "set_parameters" /\ ret'.outcome # "ok")
          => app' = app]_vars

\* C11 witness: a set_parameters call failed on a wrapper that stores a
\* positional and an option
C11_Witness ==
    /\ call.op = "set_parameters"
    /\ ret.outcome \in {"UnknownParameter", "MisplacedPositional",
                        "TooManyPositionals", "ValidationError"}
    /\ app.positionals # <<>>
    /\ app.options # <<>>

\* C12: when run() is called on a wrapper whose stored state lacks a
\* required positional or a required option, run() fails with the
\* missing-required CallerError and _execute is not invoked in that call.
C12_MissingRequiredRunNotExecuted ==
    (call.op = "run" /\ MissingRequired(app.positionals, app.options)) =>
        /\ ret.outcome \in MissingOutcomes
        /\ ret.kind = "CallerError"
        /\ ~ret.executed

\* C12 witness: run() was called with a positional stored and a required
\* option missing
C12_Witness ==
    /\ call.op = "run"
    /\ app.positionals # <<>>
    /\ MissingOption(OptDefs, app.options)
    /\ ret.outcome = "MissingOption"

\* C13: run() never changes the stored positionals or option mapping,
\* whether it succeeds, fails in compilation or fails in execution; the
\* wrapper stays resolved after it, so a further run() is accepted and
\* compiles from the same stored state: what it compiles is what this
\* run() compiled.
C13_RunKeepsStoredState ==
    [][(call'.op = "run") =>
          /\ app' = app
          /\ pc' = "app"
          /\ LET again == MakeCmdline(defs', named_dict', AppCmd,
                                      app'.positionals, app'.options, TRUE)
             IN  IF ret'.executed
                 THEN /\ again.outcome = "ok"
                      /\ ret'.outcome = "ok" => again.cmdline = ret'.cmdline
                 ELSE again = ret']_vars

\* C13 witness: a run() failed in execution on a wrapper that stores a
\* positional and an option, and the wrapper is still there
C13_Witness ==
    /\ call.op = "run"
    /\ ret.outcome = "OSError"
    /\ ret.executed
    /\ pc = "app"
    /\ app.positionals # <<>>
    /\ app.options # <<>>

\* the definitions d with no parameter required
Relaxed(d) ==
    [d EXCEPT
       !.positional_defines =
           [i \in 1 .. Len(@) |-> [@[i] EXCEPT !.is_required = FALSE]],
       !.option_defines =
           [o \in 1 .. Len(@) |-> [@[o] EXCEPT !.is_required = FALSE]]]

\* C14: resolution does not enforce required-ness.  checked_values,
\* set_parameters and the construction of a wrapper never raise the
\* missing-required error and give what they would give were no parameter
\* required; with no arguments they succeed with nothing resolved.  Only
\* make_cmdline and run() raise the missing-required error.
C14_RequiredOnlyAtCompilation ==
    /\ (call.op \in {"checked_values", "AppWrapper", "set_parameters"}) =>
           ret.outcome \notin MissingOutcomes
    /\ (call.op \in {"checked_values", "AppWrapper"}) =>
           /\ ret = CheckedValues(Relaxed(defs), named_dict,
                                  call.positionals, call.named)
           /\ (call.positionals = <<>> /\ call.named = <<>>) =>
                  /\ ret.outcome = "ok"
                  /\ ret.poses = <<>>
                  /\ ret.options = <<>>
    /\ (ret.outcome \in MissingOutcomes) =>
           call.op \in {"make_cmdline", "run"}

\* C14 witness: a wrapper was constructed with no arguments although its
\* definitions require a positional
C14_Witness ==
    /\ call.op = "AppWrapper"
    /\ call.positionals = <<>>
    /\ call.named = <<>>
    /\ ret.outcome = "ok"
    /\ app.exists
    /\ MissingRequired(app.positionals, app.options)

-----------------------------------------------------------------------------
(* Properties of rendering *)

\* the fragment '--name', with no '=value' part
NameOnly(name) == Token("flag", name, 0)

\* C15: an option with is_flag true renders to the empty fragment when its
\* value is falsy and to exactly its '--name' fragment, with no '=value'
\* part, when its value is truthy.
C15_FlagRendersNameOnly ==
    (MakeCmdlineDone /\ ret.outcome = "ok") =>
        LET cv == Resolved
        IN  \A j \in 1 .. Len(cv.options) :
               OptionOf(cv.options[j][1]).is_flag =>
                   ret.cmdline[PrefixLen + j] =
                       (IF Truthy(cv.options[j][2])
                        THEN NameOnly(cv.options[j][1])
                        ELSE EmptyString)

\* the resolved option entry e renders to the empty fragment
RendersEmpty(e) == DefineToString(OptionOf(e[1]), e[2]).str = EmptyString

\* the option mapping without the entries that render to the empty fragment
WithoutEmpty(options) == SelectSeq(options, LAMBDA e : ~RendersEmpty(e))

\* C16: an option or flag that renders to the empty fragment contributes
\* nothing to the output of make_cmdline: the command line has no empty
\* token and is the command line compiled with that option left out.
C16_EmptyFragmentContributesNothing ==
    (MakeCmdlineDone /\ ret.outcome = "ok") =>
        LET cv == Resolved
        IN  /\ \A t \in 1 .. Len(ret.cmdline) :
                  ret.cmdline[t].kind # "empty"
            /\ ret.cmdline =
                  MakeChecked(defs, named_dict, call.cmd, cv.poses,
                              WithoutEmpty(cv.options)).cmdline

\* the define p with the identity for a checker
Unchecked(p) == [p EXCEPT !.checker = "ident"]

\* the command line compiled from the stored values of the wrapper with no
\* checker applied to any of them
CompiledUnchecked ==
    MakeChecked([defs EXCEPT
                    !.positional_defines =
                        [i \in 1 .. Len(@) |-> Unchecked(@[i])],
                    !.option_defines =
                        [o \in 1 .. Len(@) |-> Unchecked(@[o])]],
                [k \in DOMAIN named_dict |-> Unchecked(named_dict[k])],
                AppCmd, app.positionals, app.options)

\* C17: compilation never re-validates.  With checked=True, the path of
\* run(), no checker is applied to any value: run() compiles the stored
\* values as they are, each having gone through its checker once, in
\* set_parameters.
C17_RunDoesNotRevalidate ==
    (call.op = "run") =>
        IF ret.executed
        THEN /\ CompiledUnchecked.outcome = "ok"
             /\ ret.outcome = "ok" => ret.cmdline = CompiledUnchecked.cmdline
        ELSE ret = CompiledUnchecked

-----------------------------------------------------------------------------
(* Properties of execution *)

\* C18: ShellWrapper.run() does not fail because the child process returned
\* a non-zero exit code: whatever the exit code, it returns a result that
\* carries that exit code, the captured standard output and the captured
\* standard error (the last in its attribute stdin).
C18_ExitCodeReturnedNotRaised ==
    (call.op = "run" /\ call.child.started) =>
        /\ ret.outcome = "ok"
        /\ ret.executed
        /\ ret.result.result_code = call.child.code
        /\ ret.result.stdout = call.child.out
        /\ ret.result.stdin = call.child.err

\* C18 witness: the child process of a run() exited with a non-zero code,
\* its standard output and standard error differing
C18_Witness ==
    /\ call.op = "run"
    /\ call.child.started
    /\ call.child.code # 0
    /\ call.child.out # call.child.err
    /\ ret.outcome = "ok"

-----------------------------------------------------------------------------
(* Properties of the errors *)

\* the failure category an outcome of the engine belongs to
Category(outcome) ==
    IF outcome = "ValueError" THEN "DuplicateDefinition"
    ELSE IF outcome \in MissingOutcomes THEN "MissingRequired"
    ELSE outcome

\* the outcomes that belong to one of the six failure categories
CategoryOutcomes ==
    {"ValueError", "UnknownParameter", "MisplacedPositional",
     "TooManyPositionals", "MissingPositional", "MissingOption",
     "ValidationError"}

CallerErrorOutcomes ==
    {"UnknownParameter", "MisplacedPositional", "TooManyPositionals",
     "MissingPositional", "MissingOption"}

\* C19 as stated: every failure category is raised as an error of its own
\* kind, so the kind of the error raised tells which category occurred: no
\* outcome of another category has the same kind.
C19_KindTellsCategory ==
    (ret.outcome \in CategoryOutcomes) =>
        \A o \in CategoryOutcomes :
            ErrorKind(o) = ret.kind => Category(o) = Category(ret.outcome)

\* C19 amended: Duplicate Definition is raised as ValueError; Unknown
\* Parameter, Misplaced Positional, Too Many Positionals and Missing
\* Required are all raised as the one kind CallerError, and nothing else
\* is; a Validation Error is the checker's own exception.  (Each case is
\* stated from the arguments of the call: a call whose error is not a
\* CallerError has none of the four, one whose error is not the checker's
\* has no rejected option ahead of every unknown key.)
C19_KindsOfFailures ==
    /\ (call.op = "init" /\ KeyClaimedTwice) => ret.kind = "ValueError"
    /\ ((CheckedValuesDone \/ MakeCmdlineDone) /\ ret.kind # "CallerError") =>
          /\ ~(HasUnknownEntry /\ ~RejectedBeforeUnknown)
          /\ ~(PartitionPasses /\ NamedSlotLeavesGap)
          /\ ~(/\ call.named = <<>>
               /\ ValuesAccepted
               /\ ~defs.last_repeat
               /\ Len(call.positionals) > Len(PosDefs))
          /\ ~(/\ MakeCmdlineDone
               /\ call.named = <<>>
               /\ ValuesAccepted
               /\ Len(call.positionals) <= Len(PosDefs)
               /\ MissingRequired(call.positionals, <<>>))
    /\ ((CheckedValuesDone \/ MakeCmdlineDone) /\ ret.kind # "CheckerError") =>
          ~RejectedBeforeUnknown
    /\ ret.kind = "CallerError" <=> ret.outcome \in CallerErrorOutcomes

\* C19 witness: a make_cmdline call failed with Misplaced Positional, its
\* error a CallerError like that of the other categories
C19_Witness ==
    /\ MakeCmdlineDone
    /\ PartitionPasses
    /\ NamedSlotLeavesGap
    /\ ret.outcome = "MisplacedPositional"
    /\ ret.kind = "CallerError"
    /\ ErrorKind("UnknownParameter") = ret.kind

-----------------------------------------------------------------------------
(* Frame properties of the definitions *)

\* C20: a ParameterDefinitions instance is unchanged by every operation
\* after its construction: no checked_values, make_cmdline, set_parameters
\* or run(), successful or failing, changes its positional defines, option
\* defines, globbing setting or name table, and none changes the caller's
\* positionals sequence or named mapping.
C20_DefinitionsAndArgumentsUnchanged ==
    [][/\ defs' = defs
       /\ named_dict' = named_dict
       /\ ret'.args_intact]_vars

\* C20 witness: checked_values appended a named positional to the values
\* and the caller's sequence is as it was passed
C20_Witness ==
    /\ call.op = "checked_values"
    /\ ret.outcome = "ok"
    /\ Len(ret.poses) > Len(call.positionals)
    /\ ret.args_intact
    /\ defs \in AppDefinitions

-----------------------------------------------------------------------------
(* Properties of the order of the named mapping *)

\* the orders in which a mapping of n entries can be iterated
Orders(n) ==
    {f \in [1 .. n -> 1 .. n] : \A i, j \in 1 .. n : i # j => f[i] # f[j]}

\* the named mapping of the call iterated in the order f
Reordered(f) == [i \in 1 .. Len(call.named) |-> call.named[f[i]]]

\* what the claim calls the outcome of checked_values: the returned
\* positionals and option mapping, or the fact of failing with Misplaced
\* Positional, or of failing otherwise
OutcomeOf(r) ==
    [ok |-> r.outcome = "ok",
     misplaced |-> r.outcome = "MisplacedPositional",
     poses |-> r.poses,
     options |-> DictItems(r.options)]

\* entries n and m name the same option
SameOption(n, m) ==
    /\ ~IsPositionalKey(call.named[n][1]) /\ IsOptionKey(call.named[n][1])
    /\ ~IsPositionalKey(call.named[m][1]) /\ IsOptionKey(call.named[m][1])
    /\ OptionOf(call.named[n][1]) = OptionOf(call.named[m][1])

\* entries n and m name the same positional slot
SameSlot(n, m) ==
    /\ NamedPositional(n)
    /\ NamedPositional(m)
    /\ SlotOf(call.named[n][1]) = SlotOf(call.named[m][1])

NoOptionTwice ==
    \A n, m \in 1 .. Len(call.named) : n # m => ~SameOption(n, m)

NoSlotTwice ==
    \A n, m \in 1 .. Len(call.named) : n # m => ~SameSlot(n, m)

\* the outcome is the same in whatever other order the mapping is iterated
SameInEveryOrder ==
    \A f \in Orders(Len(call.named)) :
        (\E i \in 1 .. Len(call.named) : f[i] # i) =>
            OutcomeOf(CheckedValues(defs, named_dict, call.positionals,
                                    Reordered(f))) = OutcomeOf(ret)

\* C21 as stated: the outcome of checked_values (the returned positionals
\* and option mapping, or the fact of failing with Misplaced Positional)
\* does not depend on the iteration order of the named mapping, for every
\* mapping in which no option is supplied under two different keys.
C21_OrderIndependentUnlessOptionTwice ==
    (CheckedValuesDone /\ NoOptionTwice) => SameInEveryOrder

\* C21 amended: the same, for every mapping in which no option and no
\* positional slot is supplied under two different keys.
C21_OrderIndependentUnlessParameterTwice ==
    (CheckedValuesDone /\ NoOptionTwice /\ NoSlotTwice) => SameInEveryOrder

\* C21 witness: the two slots past the end of the supplied values are named
\* in descending order and the call succeeds
C21_Witness ==
    /\ CheckedValuesDone
    /\ ret.outcome = "ok"
    /\ Len(call.named) >= 2
    /\ NoOptionTwice
    /\ NoSlotTwice
    /\ \E n, m \in 1 .. Len(call.named) :
          /\ n < m
          /\ NamedPositional(n)
          /\ NamedPositional(m)
          /\ SlotOf(call.named[n][1]) = Len(call.positionals) + 1
          /\ SlotOf(call.named[m][1]) = Len(call.positionals)

-----------------------------------------------------------------------------
(* Properties of the stored state of the wrapper *)

\* C22: after any sequence of wrapper construction, set_parameters calls
\* (successful or failed) and run() calls, every key of the stored option
\* mapping is the canonical name of a declared option, never an alias and
\* never a positional key, and, when globbing is off, there are at most as
\* many stored positionals as declared positional slots.
C22_StoredStateWellFormed ==
    app.exists =>
        /\ \A j \in 1 .. Len(app.options) :
              /\ IsOptionName(app.options[j][1])
              /\ ~IsPositionalKey(app.options[j][1])
        /\ ~defs.last_repeat => Len(app.positionals) <= Len(PosDefs)

\* C22 witness: a set_parameters call has failed on a wrapper that stores
\* two options and a value for every declared slot, globbing off
C22_Witness ==
    /\ app.exists
    /\ call.op = "set_parameters"
    /\ ret.outcome # "ok"
    /\ ~defs.last_repeat
    /\ Len(app.options) = 2
    /\ Len(app.positionals) = Len(PosDefs)

-----------------------------------------------------------------------------
(* Properties of biocaller's set_parameter *)

\* the parameters the last call named
Named == {i \in 1 .. Len(cl.parameters) :
             \E k \in 1 .. Len(cl.parameters[i].names) :
                 cl.parameters[i].names[k] = cl.last.name}

\* the checker neither raises nor, as a [0, 1] decision, says bad
CheckerAccepts(check_function, value) ==
    \/ check_function = NoChecker
    \/ /\ ~CheckerCall(check_function, value).raised
       /\ check_function.fn = "good_bad" =>
              PyTruthy(CheckerCall(check_function, value).value)

\* C23: set_parameter(name, value) rejects a value only when the checker
\* raises or returns a falsy good/bad flag: a value that every checker of
\* the named parameters accepts, values coercing to 0 or 1 included, is
\* stored as the value of each and each is marked set.
C23_AcceptedValueStored ==
    (/\ cl.last.op = "set_parameter"
     /\ cl.last.value # PyNone
     /\ Named # {}
     /\ \A i \in Named :
           CheckerAccepts(cl.parameters[i].checker_function, cl.last.value))
    => /\ cl.last.outcome = "ok"
       /\ \A i \in Named : /\ cl.parameters[i].value = cl.last.value
                            /\ cl.parameters[i].is_set = 1

====
